---- MODULE Spec2Model ----
(***************************************************************************)
(* Model of src/src/server.rs: a thread-per-connection TCP echo server.    *)
(*                                                                         *)
(* Threads of the program:                                                 *)
(*   - caller threads, which call Server::run and Server::stop;            *)
(*   - one acceptor thread per successful run() call (lines 75-111);       *)
(*   - one session thread per accepted connection (lines 86-100), which    *)
(*     repeats Client::handle (lines 24-44) while the flag is true.        *)
(* The environment is the set of TCP peers: they connect, send chunks of   *)
(* bytes, receive the answers, close (FIN) or reset (RST) their connection.*)
(***************************************************************************)
EXTENDS Integers, Sequences, FiniteSets, TLC

\* ---------------------------------------------------------------- bounds
MaxConns == 2      \* connections the peers open
MaxSend == 2       \* chunks the peers send, over all connections
MaxRuns == 2       \* acceptor threads: calls of Server::run that succeed
NumCallers == 2    \* threads calling run() and stop()
SendBuf == 1       \* payloads a connection buffers towards a peer that does not receive

\* ------------------------------------------------------ program constants
BufferCap == 512   \* let mut buffer = [0; 512]
TagContent == 10   \* protobuf key of field 1 (content), wire type 2

Conns == 1..MaxConns
Acceptors == 1..MaxRuns
Callers == 1..NumCallers

VARIABLES
    is_running,  \* Server.is_running: the shared AtomicBool
    cpc,         \* cpc[k]: where caller k is: "idle", "run" (after the store of
                 \*   line 66), "stop" (after the load of line 119 saw true)
    report,      \* report[k]: the outcome of the last call of caller k: what
                 \*   stop() logged ("sent", "already") or what run() returned
                 \*   ("ok", "err")
    nacc,        \* number of acceptor threads spawned
    apc,         \* apc[a]: acceptor a: "none", "check" (line 76), "accept"
                 \*   (line 81, holding its listener lock), "error" (lines
                 \*   106-108, accept has failed), "done"
    nconn,       \* number of connections the peers have opened
    backlog,     \* connections established and not yet accepted (FIFO)
    peer,        \* peer[c]: "none", "up", "closed" (FIN sent), "reset" (RST sent)
    inq,         \* inq[c]: chunks sent by the peer and not yet read
    unread,      \* unread[c]: payloads written to connection c that its peer
                 \*   has not received yet
    sstate,      \* sstate[c]: session of connection c: "None" (not spawned),
                 \*   "Check" (line 90), "Reading" (27), "Decoding" (33),
                 \*   "Responding" (37-38), "Closed", "Failed" (thread ended)
    buf,         \* buf[c]: &buffer[..bytes_read] of the current handle() call
    rd,          \* rd[c]: the results of the reads of session c that returned Ok
    wr,          \* wr[c]: the payloads session c wrote to its stream
    slog         \* slog[c]: the kinds of log lines session c emitted

vars == <<is_running, cpc, report, nacc, apc, nconn, backlog,
          peer, inq, unread, sstate, buf, rd, wr, slog>>

callerVars == <<cpc, report>>
acceptorVars == <<nacc, apc>>
netVars == <<nconn, backlog, peer, inq, unread>>
sessionVars == <<sstate, buf, rd, wr, slog>>

\* ------------------------------------------------------------------ codec
\* prost's decoding of EchoMessage { string content = 1; } over keys and
\* lengths below 128 (one-byte varints).  A key is field * 8 + wire type.
\* Field 1 must be length-delimited; a repeated field 1 replaces the earlier
\* value; other fields are skipped according to their wire type.
DecodeError == [ok |-> FALSE, content |-> <<>>]

RECURSIVE DecodeFrom(_, _)
DecodeFrom(bs, content) ==
    IF bs = <<>> THEN [ok |-> TRUE, content |-> content]
    ELSE LET key == Head(bs)
             field == key \div 8
             wt == key % 8
             rest == Tail(bs)
         IN  IF key >= 128 \/ field = 0 THEN DecodeError
             ELSE IF wt = 2
                  THEN IF rest = <<>> \/ Head(rest) >= 128 THEN DecodeError
                       ELSE LET n == Head(rest)
                                body == Tail(rest)
                            IN  IF Len(body) < n THEN DecodeError
                                ELSE DecodeFrom(SubSeq(body, n + 1, Len(body)),
                                                IF field = 1 THEN SubSeq(body, 1, n)
                                                             ELSE content)
             ELSE IF field = 1 THEN DecodeError
             ELSE IF wt = 0
                  THEN IF rest = <<>> \/ Head(rest) >= 128 THEN DecodeError
                       ELSE DecodeFrom(Tail(rest), content)
             ELSE IF wt = 5
                  THEN IF Len(rest) < 4 THEN DecodeError
                       ELSE DecodeFrom(SubSeq(rest, 5, Len(rest)), content)
             ELSE IF wt = 1
                  THEN IF Len(rest) < 8 THEN DecodeError
                       ELSE DecodeFrom(SubSeq(rest, 9, Len(rest)), content)
             ELSE DecodeError

\* EchoMessage::decode(&buffer[..bytes_read])
Decode(bs) == DecodeFrom(bs, <<>>)

\* message.encode_to_vec(): proto3 omits a field holding its default value.
Encode(content) ==
    IF content = <<>> THEN <<>> ELSE <<TagContent, Len(content)>> \o content

\* ------------------------------------------------------------ peer inputs
\* The chunks peer c may send; each carries the byte 64 + c, so that the
\* chunks of different peers are distinct.
Valid(c) == <<TagContent, 1, 64 + c>>
\* An unknown field (key 16: field 2, varint) before the content field.
NonCanonical(c) == <<16, 1, TagContent, 1, 64 + c>>
\* A length prefix that promises more bytes than the chunk holds.
Truncated(c) == <<TagContent, 2, 64 + c>>

Chunks(c) == {Valid(c), NonCanonical(c), Truncated(c)}

\* A constructor that creates the flag already set.
InitRunning ==
    /\ is_running = TRUE
    /\ cpc = [k \in Callers |-> "idle"]
    /\ report = [k \in Callers |-> "none"]
    /\ nacc = 0
    /\ apc = [a \in Acceptors |-> "none"]
    /\ nconn = 0
    /\ backlog = <<>>
    /\ peer = [c \in Conns |-> "none"]
    /\ inq = [c \in Conns |-> <<>>]
    /\ unread = [c \in Conns |-> 0]
    /\ sstate = [c \in Conns |-> "None"]
    /\ buf = [c \in Conns |-> <<>>]
    /\ rd = [c \in Conns |-> <<>>]
    /\ wr = [c \in Conns |-> <<>>]
    /\ slog = [c \in Conns |-> {}]

\* -------------------------------------------------------------- the state
Init ==
    /\ is_running = FALSE
    /\ cpc = [k \in Callers |-> "idle"]
    /\ report = [k \in Callers |-> "none"]
    /\ nacc = 0
    /\ apc = [a \in Acceptors |-> "none"]
    /\ nconn = 0
    /\ backlog = <<>>
    /\ peer = [c \in Conns |-> "none"]
    /\ inq = [c \in Conns |-> <<>>]
    /\ unread = [c \in Conns |-> 0]
    /\ sstate = [c \in Conns |-> "None"]
    /\ buf = [c \in Conns |-> <<>>]
    /\ rd = [c \in Conns |-> <<>>]
    /\ wr = [c \in Conns |-> <<>>]
    /\ slog = [c \in Conns |-> {}]

\* ------------------------------------------------------------ Server::run
\* Line 66: the flag is stored before anything else in run().
RunStore(k) ==
    /\ cpc[k] = "idle"
    /\ nacc + Cardinality({j \in Callers : cpc[j] = "run"}) < MaxRuns
    /\ is_running' = TRUE
    /\ cpc' = [cpc EXCEPT ![k] = "run"]
    /\ UNCHANGED <<report, acceptorVars, netVars, sessionVars>>

\* A run() that starts an acceptor only when none is live.
RunSpawnOnce(k) ==
    /\ cpc[k] = "run"
    /\ IF \E a \in Acceptors : apc[a] \in {"check", "accept", "error"}
       THEN UNCHANGED <<nacc, apc>>
       ELSE /\ nacc' = nacc + 1
            /\ apc' = [apc EXCEPT ![nacc + 1] = "check"]
    /\ cpc' = [cpc EXCEPT ![k] = "idle"]
    /\ report' = [report EXCEPT ![k] = "ok"]
    /\ UNCHANGED <<is_running, netVars, sessionVars>>

\* Lines 67-115: the listener handle is duplicated, the acceptor thread is
\* spawned with its own Arc<Mutex<TcpListener>>, and run() returns Ok.
RunSpawn(k) ==
    /\ cpc[k] = "run"
    /\ nacc' = nacc + 1
    /\ apc' = [apc EXCEPT ![nacc + 1] = "check"]
    /\ cpc' = [cpc EXCEPT ![k] = "idle"]
    /\ report' = [report EXCEPT ![k] = "ok"]
    /\ UNCHANGED <<is_running, netVars, sessionVars>>

\* Lines 67 and 70: local_addr()? or try_clone()? fails; run() returns the
\* error, with the flag already stored and no acceptor spawned.
RunFail(k) ==
    /\ cpc[k] = "run"
    /\ cpc' = [cpc EXCEPT ![k] = "idle"]
    /\ report' = [report EXCEPT ![k] = "err"]
    /\ UNCHANGED <<is_running, acceptorVars, netVars, sessionVars>>

\* ----------------------------------------------------------- Server::stop
\* A stop() that logs the shutdown signal whatever its load returned.
StopReportAlwaysSent(seen) == "sent"

\* What stop() logs, given the value its load of the flag returned.
StopReport(seen) == IF seen THEN "sent" ELSE "already"

\* Line 119: the load.  On false the call logs the warning and returns.
StopLoad(k) ==
    /\ cpc[k] = "idle"
    /\ IF is_running
       THEN /\ cpc' = [cpc EXCEPT ![k] = "stop"]
            /\ UNCHANGED report
       ELSE /\ report' = [report EXCEPT ![k] = StopReport(FALSE)]
            /\ UNCHANGED cpc
    /\ UNCHANGED <<is_running, acceptorVars, netVars, sessionVars>>

\* Lines 120-121: the store, a separate atomic operation from the load.
StopStore(k) ==
    /\ cpc[k] = "stop"
    /\ is_running' = FALSE
    /\ report' = [report EXCEPT ![k] = StopReport(TRUE)]
    /\ cpc' = [cpc EXCEPT ![k] = "idle"]
    /\ UNCHANGED <<acceptorVars, netVars, sessionVars>>

\* ----------------------------------------------------------- the acceptor
\* Line 76 and 78: the loop condition; on true the thread locks its own
\* mutex (no other thread holds a reference to it) and calls accept.
AcceptorCheck(a) ==
    /\ apc[a] = "check"
    /\ apc' = [apc EXCEPT ![a] = IF is_running THEN "accept" ELSE "done"]
    /\ UNCHANGED <<is_running, callerVars, nacc, netVars, sessionVars>>

\* Lines 81-101: accept returns a connection; a session thread is spawned.
\* The listener is in blocking mode (line 55 binds it and nothing sets it
\* non-blocking), so accept returns only when a connection is queued.
AcceptOk(a) ==
    /\ apc[a] = "accept"
    /\ backlog # <<>>
    /\ backlog' = Tail(backlog)
    /\ sstate' = [sstate EXCEPT ![Head(backlog)] = "Check"]
    /\ apc' = [apc EXCEPT ![a] = "check"]
    /\ UNCHANGED <<is_running, callerVars, nacc, nconn, peer, inq, unread, buf, rd, wr, slog>>

\* An acceptor that an accept error ends (the error is propagated or unwrapped).
AcceptErrEndsAcceptor(a) ==
    /\ apc[a] = "accept"
    /\ apc' = [apc EXCEPT ![a] = "done"]
    /\ UNCHANGED <<is_running, callerVars, nacc, netVars, sessionVars>>

\* Line 81 and 106: accept fails with an error other than WouldBlock.
\* (The WouldBlock arm, lines 102-105, is unreachable on a blocking listener.)
AcceptErr(a) ==
    /\ apc[a] = "accept"
    /\ apc' = [apc EXCEPT ![a] = "error"]
    /\ UNCHANGED <<is_running, callerVars, nacc, netVars, sessionVars>>

\* Lines 107-110: the error is logged, the lock guard is dropped and the
\* loop goes back to its condition.
AcceptErrLogged(a) ==
    /\ apc[a] = "error"
    /\ apc' = [apc EXCEPT ![a] = "check"]
    /\ UNCHANGED <<is_running, callerVars, nacc, netVars, sessionVars>>

\* -------------------------------------------------------------- the peers
SessionEnded(c) == sstate[c] \in {"Closed", "Failed"}

Connect ==
    /\ nconn < MaxConns
    /\ nconn' = nconn + 1
    /\ peer' = [peer EXCEPT ![nconn + 1] = "up"]
    /\ backlog' = Append(backlog, nconn + 1)
    /\ UNCHANGED <<is_running, callerVars, acceptorVars, inq, unread, sessionVars>>

\* The number of chunks the peers of connections 1..c have sent.
RECURSIVE Sent(_)
Sent(c) == IF c = 0 THEN 0 ELSE Len(rd[c]) + Len(inq[c]) + Sent(c - 1)

Send(c, m) ==
    /\ peer[c] = "up"
    /\ ~SessionEnded(c)
    /\ Sent(MaxConns) < MaxSend
    /\ inq' = [inq EXCEPT ![c] = Append(@, m)]
    /\ UNCHANGED <<is_running, callerVars, acceptorVars, nconn, backlog, peer, unread, sessionVars>>

\* The peer closes its side: the session's reads return 0 once inq is drained.
PeerClose(c) ==
    /\ peer[c] = "up"
    /\ ~SessionEnded(c)
    /\ peer' = [peer EXCEPT ![c] = "closed"]
    /\ UNCHANGED <<is_running, callerVars, acceptorVars, nconn, backlog, inq, unread, sessionVars>>

\* The peer aborts the connection: unread data is discarded.
PeerReset(c) ==
    /\ peer[c] \in {"up", "closed"}
    /\ ~SessionEnded(c)
    /\ peer' = [peer EXCEPT ![c] = "reset"]
    /\ inq' = [inq EXCEPT ![c] = <<>>]
    /\ unread' = [unread EXCEPT ![c] = 0]
    /\ UNCHANGED <<is_running, callerVars, acceptorVars, nconn, backlog, sessionVars>>

\* The peer receives a payload the session wrote, which makes room for the
\* next one.
PeerRecv(c) ==
    /\ peer[c] \in {"up", "closed"}
    /\ unread[c] > 0
    /\ unread' = [unread EXCEPT ![c] = @ - 1]
    /\ UNCHANGED <<is_running, callerVars, acceptorVars, nconn, backlog, peer, inq, sessionVars>>

\* ------------------------------------------------------------ the session
\* A session that loops without consulting the flag.
SessionCheckIgnoresFlag(c) ==
    /\ sstate[c] = "Check"
    /\ sstate' = [sstate EXCEPT ![c] = "Reading"]
    /\ UNCHANGED <<is_running, callerVars, acceptorVars, netVars, buf, rd, wr, slog>>

\* Line 90: the loop condition of the session thread.
SessionCheck(c) ==
    /\ sstate[c] = "Check"
    /\ sstate' = [sstate EXCEPT ![c] = IF is_running THEN "Reading" ELSE "Closed"]
    /\ UNCHANGED <<is_running, callerVars, acceptorVars, netVars, buf, rd, wr, slog>>

Take(s, n) == SubSeq(s, 1, IF Len(s) < n THEN Len(s) ELSE n)
Drop(s, n) == SubSeq(s, n + 1, Len(s))

\* Line 27 with bytes_read > 0: at most BufferCap bytes of the first chunk.
ReadData(c) ==
    /\ sstate[c] = "Reading"
    /\ peer[c] # "reset"
    /\ inq[c] # <<>>
    /\ LET chunk == Head(inq[c])
           got == Take(chunk, BufferCap)
           left == Drop(chunk, BufferCap)
       IN  /\ buf' = [buf EXCEPT ![c] = got]
           /\ rd' = [rd EXCEPT ![c] = Append(@, got)]
           /\ inq' = [inq EXCEPT ![c] = IF left = <<>> THEN Tail(@)
                                                       ELSE <<left>> \o Tail(@)]
    /\ sstate' = [sstate EXCEPT ![c] = "Decoding"]
    /\ UNCHANGED <<is_running, callerVars, acceptorVars, nconn, backlog, peer, unread, wr, slog>>

\* A handle() without the early return of lines 28-31: the empty range is
\* handed to the decoder.
AfterZeroReadDecodes == "Decoding"

\* Where the session thread is after handle() read zero bytes: lines 28-31
\* return Ok(()), and on Ok the loop of lines 90-99 goes back to its condition.
AfterZeroRead == "Check"

\* Lines 27-31 with bytes_read = 0.
ReadZero(c) ==
    /\ sstate[c] = "Reading"
    /\ peer[c] = "closed"
    /\ inq[c] = <<>>
    /\ slog' = [slog EXCEPT ![c] = @ \cup {"disconnected"}]
    /\ sstate' = [sstate EXCEPT ![c] = AfterZeroRead]
    /\ UNCHANGED <<is_running, callerVars, acceptorVars, netVars, buf, rd, wr>>

\* A session loop without the break of line 97: the error is logged and the
\* loop goes on.
ReadResetContinues(c) ==
    /\ sstate[c] = "Reading"
    /\ peer[c] = "reset"
    /\ slog' = [slog EXCEPT ![c] = @ \cup {"reset"}]
    /\ sstate' = [sstate EXCEPT ![c] = "Check"]
    /\ UNCHANGED <<is_running, callerVars, acceptorVars, netVars, buf, rd, wr>>

\* Line 27 fails with ConnectionReset: `?` returns the error, lines 91-97
\* log it at info level and break.
ReadReset(c) ==
    /\ sstate[c] = "Reading"
    /\ peer[c] = "reset"
    /\ slog' = [slog EXCEPT ![c] = @ \cup {"reset"}]
    /\ sstate' = [sstate EXCEPT ![c] = "Closed"]
    /\ UNCHANGED <<is_running, callerVars, acceptorVars, netVars, buf, rd, wr>>

\* A handle() that returns the decode failure as an error, which ends the loop.
AfterDecodeFailureEndsSession == "Failed"

\* Where the session thread is after a decode failure: lines 39-43 log and
\* return Ok(()).
AfterDecodeFailure == "Check"

\* Lines 33-34 and 39-41.
DecodeStep(c) ==
    /\ sstate[c] = "Decoding"
    /\ IF Decode(buf[c]).ok
       THEN /\ slog' = [slog EXCEPT ![c] = @ \cup {"received"}]
            /\ sstate' = [sstate EXCEPT ![c] = "Responding"]
            /\ UNCHANGED buf
       ELSE /\ slog' = [slog EXCEPT ![c] = @ \cup {"decode_failed"}]
            /\ sstate' = [sstate EXCEPT ![c] = AfterDecodeFailure]
            /\ buf' = [buf EXCEPT ![c] = <<>>]
    /\ UNCHANGED <<is_running, callerVars, acceptorVars, netVars, rd, wr>>

\* A handle() that writes back the bytes it received.
PayloadRaw(bs) == bs

\* Line 36: the payload is the re-encoding of the decoded message.
Payload(bs) == Encode(Decode(bs).content)

\* Sessions that all write to the stream of the first connection.
SharedStream(c) == 1

\* Lines 20-22 and 87: the stream session c writes to is the one it was
\* constructed with, the connection it reads from.
Stream(c) == c

\* A handle() that returns before the payload has reached the stream (it is
\* left in a buffer that is never flushed).
WriteDeferred(c) ==
    /\ sstate[c] = "Responding"
    /\ peer[c] # "reset"
    /\ buf' = [buf EXCEPT ![c] = <<>>]
    /\ sstate' = [sstate EXCEPT ![c] = "Check"]
    /\ UNCHANGED <<is_running, callerVars, acceptorVars, netVars, rd, wr, slog>>

\* Lines 37-38 succeed.  write_all on the blocking stream returns once the
\* payload is buffered towards the peer; while the peer receives nothing and
\* the buffers are full, the call stays blocked.
WriteOk(c) ==
    /\ sstate[c] = "Responding"
    /\ peer[c] # "reset"
    /\ unread[Stream(c)] < SendBuf
    /\ unread' = [unread EXCEPT ![Stream(c)] = @ + 1]
    /\ wr' = [wr EXCEPT ![Stream(c)] = Append(@, Payload(buf[c]))]
    /\ buf' = [buf EXCEPT ![c] = <<>>]
    /\ sstate' = [sstate EXCEPT ![c] = "Check"]
    /\ UNCHANGED <<is_running, callerVars, acceptorVars, nconn, backlog, peer, inq, rd, slog>>

\* Lines 37-38 fail: ConnectionReset after a reset (logged at info level),
\* BrokenPipe after the peer closed (logged as an error); lines 91-97 break.
WriteErr(c) ==
    /\ sstate[c] = "Responding"
    /\ peer[c] \in {"closed", "reset"}
    /\ slog' = [slog EXCEPT ![c] = @ \cup {IF peer[c] = "reset" THEN "reset" ELSE "error"}]
    /\ sstate' = [sstate EXCEPT ![c] = IF peer[c] = "reset" THEN "Closed" ELSE "Failed"]
    /\ buf' = [buf EXCEPT ![c] = <<>>]
    /\ UNCHANGED <<is_running, callerVars, acceptorVars, netVars, rd, wr>>

\* ------------------------------------------------------ the specification
Call(k) == RunStore(k) \/ RunSpawn(k) \/ RunFail(k) \/ StopLoad(k) \/ StopStore(k)
AcceptorStep == \E a \in Acceptors : AcceptorCheck(a) \/ AcceptOk(a) \/ AcceptErrLogged(a)
AcceptFailure == \E a \in Acceptors : AcceptErr(a)
PeerStep == \/ Connect
            \/ \E c \in Conns : \/ \E m \in Chunks(c) : Send(c, m)
                                \/ PeerClose(c)
                                \/ PeerReset(c)
                                \/ PeerRecv(c)
SessionStep == \E c \in Conns : \/ SessionCheck(c)
                                \/ ReadData(c)
                                \/ ReadZero(c)
                                \/ ReadReset(c)
                                \/ DecodeStep(c)
                                \/ WriteOk(c)
                                \/ WriteErr(c)

\* The whole system, with run() and stop() called from one thread (caller 1):
\* the acceptors, the sessions and the peers see every sequence of values of
\* the flag that any number of callers can produce.  Calls that overlap in
\* time are the subject of SpecCallers below.
Next == Call(1) \/ AcceptorStep \/ AcceptFailure \/ PeerStep \/ SessionStep

Spec == Init /\ [][Next]_vars

\* Several threads call run() and stop() concurrently; the peers connect
\* and send nothing.
NextCallers == \/ \E k \in Callers : Call(k)
               \/ AcceptorStep
               \/ AcceptFailure
               \/ Connect
               \/ \E c \in Conns : SessionCheck(c)

SpecCallers == Init /\ [][NextCallers]_vars

\* The threads of the program are scheduled fairly: a call that has started
\* finishes, an acceptor and a session take their next step when they can.
\* Nothing obliges a caller to call, a peer to act or an accept to fail.
FairCallers ==
    /\ SpecCallers
    /\ \A k \in Callers : WF_vars(RunSpawn(k) \/ StopStore(k))
    /\ \A a \in Acceptors : WF_vars(AcceptorCheck(a) \/ AcceptOk(a) \/ AcceptErrLogged(a))
    /\ \A c \in Conns : WF_vars(SessionCheck(c))

\* One thread calls run() until an acceptor exists and stop() at any time.
FirstRun(k) == nacc = 0 /\ RunStore(k)
NextSessions == \/ FirstRun(1) \/ RunSpawn(1) \/ RunFail(1) \/ StopLoad(1) \/ StopStore(1)
                \/ AcceptorStep
                \/ AcceptFailure
                \/ PeerStep
                \/ SessionStep

SpecSessions == Init /\ [][NextSessions]_vars

\* The threads are scheduled fairly and a blocking call returns when it can:
\* a read when there is data, an end of stream or a reset, a write when there
\* is room or the connection is reset.  Nothing obliges a peer to send, to
\* receive or to close, an accept to fail, nor a write to a closed peer to
\* fail.
FairSessions ==
    /\ SpecSessions
    /\ WF_vars(RunSpawn(1) \/ StopStore(1))
    /\ \A a \in Acceptors : WF_vars(AcceptorCheck(a) \/ AcceptOk(a) \/ AcceptErrLogged(a))
    /\ \A c \in Conns :
          /\ WF_vars(SessionCheck(c) \/ ReadData(c) \/ ReadZero(c) \/ ReadReset(c) \/ DecodeStep(c))
          /\ WF_vars(WriteOk(c))
          /\ WF_vars(peer[c] = "reset" /\ WriteErr(c))

\* ---------------------------------------------------------------- claims
Front(s) == SubSeq(s, 1, Len(s) - 1)
Last(s) == s[Len(s)]

SawEof(c) == "disconnected" \in slog[c]
LiveAcceptors == {a \in Acceptors : apc[a] \in {"check", "accept", "error"}}

\* C1: a session whose read returned zero bytes is Closed: its loop has
\* exited and it reads no more, whatever the flag.
C1_ZeroReadClosesSession ==
    \A c \in Conns : SawEof(c) => sstate[c] = "Closed"

\* C2: while the flag is false after a stop(), no accept completes and no
\* session is spawned.
C2_NoAcceptAfterStop ==
    [][~is_running => \A c \in Conns : sstate[c] = "None" => sstate'[c] = "None"]_vars

\* C3: once the flag is false, every acceptor loop eventually ends (unless
\* run() raises the flag again), also when no connection ever arrives.
C3_StopEndsAcceptor ==
    [](~is_running => <>(is_running \/ LiveAcceptors = {}))

\* The payloads a session owes for the reads in rs: one per read that
\* decodes, the re-encoding of the decoded message, in the order of the reads.
RECURSIVE Echoes(_)
Echoes(rs) ==
    IF rs = <<>> THEN <<>>
    ELSE LET d == Decode(Head(rs))
         IN  (IF d.ok THEN <<Encode(d.content)>> ELSE <<>>) \o Echoes(Tail(rs))

\* The reads of session c whose handle() call has returned.
Handled(c) == IF sstate[c] \in {"Decoding", "Responding"} THEN Front(rd[c]) ELSE rd[c]

\* C4: a read that fails to decode writes nothing and leaves the session in
\* its loop with the connection open; a later read that decodes is answered
\* with its echo.
C4_DecodeFailureKeepsSession ==
    [][\A c \in Conns :
          /\ (sstate[c] = "Decoding" /\ sstate'[c] # "Decoding" /\ ~Decode(Last(rd[c])).ok)
                => (sstate'[c] = "Check" /\ wr'[c] = wr[c])
          /\ (sstate[c] = "Responding" /\ sstate'[c] = "Check")
                => wr'[c] = Append(wr[c], Encode(Decode(Last(rd[c])).content))]_vars

C4_Witness ==
    \E c \in Conns : /\ rd[c] = <<Truncated(c), Valid(c)>>
                     /\ wr[c] = <<Valid(c)>>
                     /\ sstate[c] = "Reading"

\* C5: what a session has written is exactly the re-encoding of each decoded
\* read, one payload per decoded read and nothing else (the payload of the
\* last read is missing only when its write failed and ended the session).
C5_EchoIsReencoding ==
    \A c \in Conns :
        \/ wr[c] = Echoes(Handled(c))
        \/ /\ sstate[c] \in {"Closed", "Failed"}
           /\ rd[c] # <<>>
           /\ wr[c] = Echoes(Front(rd[c]))

C5_Witness ==
    \E c \in Conns : /\ rd[c] = <<NonCanonical(c)>>
                     /\ wr[c] = <<Valid(c)>>
                     /\ is_running

\* C6: every payload written on a connection is the echo of a chunk read
\* from that same connection, and every chunk read from it was sent by its
\* own peer.
C6_NoCrossTalk ==
    \A c \in Conns :
        /\ \A i \in DOMAIN rd[c] : rd[c][i] \in Chunks(c)
        /\ Len(wr[c]) <= Len(rd[c])
        /\ \A i \in DOMAIN wr[c] :
              \E j \in DOMAIN rd[c] : /\ Decode(rd[c][j]).ok
                                      /\ wr[c][i] = Encode(Decode(rd[c][j]).content)

C6_Witness ==
    /\ \A c \in Conns : rd[c] = <<Valid(c)>> /\ wr[c] = <<Valid(c)>>
    /\ \A c \in Conns : sstate[c] = "Reading"

\* C7: a stop() whose load finds the flag false reports "already stopped"
\* and changes nothing else; a stop() whose load finds it true stores false
\* and reports "shutdown signal sent", and only such a call reports it.
C7_StopContract ==
    [][\A k \in Callers :
          /\ (report'[k] = "already" /\ report[k] # "already")
                => /\ ~is_running
                   /\ UNCHANGED <<is_running, cpc, acceptorVars, netVars, sessionVars>>
                   /\ \A j \in Callers \ {k} : report'[j] = report[j]
          /\ (cpc[k] = "idle" /\ cpc'[k] = "stop") => is_running
          /\ (cpc[k] = "stop" /\ cpc'[k] = "idle")
                => (~is_running' /\ report'[k] = "sent")
          /\ (report'[k] = "sent" /\ report[k] # "sent") => cpc[k] = "stop"]_vars

\* One caller has stopped the running server, the other found it stopped.
C7_Witness ==
    /\ ~is_running
    /\ nacc > 0
    /\ \E k, j \in Callers : report[k] = "sent" /\ report[j] = "already"

\* C8: once a stop() has set the flag to false, it is never true again.
C8_FlagStaysFalse ==
    [][(~is_running /\ \E k \in Callers : report[k] = "sent") => ~is_running']_vars

\* C9: at most one thread at a time is in accept() on the listening socket.
C9_SingleAcceptor ==
    Cardinality({a \in Acceptors : apc[a] = "accept"}) <= 1

\* C10: once a read of a session has returned zero bytes, nothing more is
\* written on its connection.
C10_NoWriteAfterEof ==
    [][\A c \in Conns : SawEof(c) => wr'[c] = wr[c]]_vars

\* After the zero-byte read the session has been answered before and is
\* reading again.
C10_Witness ==
    \E c \in Conns : SawEof(c) /\ wr[c] # <<>> /\ sstate[c] = "Reading"

\* C11: a read or write that fails ends the session: after a connection
\* reset it is Closed, after any other I/O error it is Failed, and an ended
\* session never reads or writes again.
C11_IoErrorEndsSession ==
    [][\A c \in Conns :
          /\ ("reset" \in slog'[c] /\ "reset" \notin slog[c]) => sstate'[c] = "Closed"
          /\ ("error" \in slog'[c] /\ "error" \notin slog[c]) => sstate'[c] = "Failed"
          /\ SessionEnded(c) => /\ sstate'[c] = sstate[c]
                                /\ rd'[c] = rd[c]
                                /\ wr'[c] = wr[c]
                                /\ inq'[c] = inq[c]]_vars

\* One session ended by a reset, another by a failed write.
C11_Witness ==
    \E c, d \in Conns : /\ sstate[c] = "Closed" /\ "reset" \in slog[c]
                        /\ sstate[d] = "Failed" /\ "error" \in slog[d]

\* C12: a session consults the flag at the top of its loop and nowhere else.
\* There, on false, it ends without reading, writing or logging, so a
\* session spawned under a false flag never reads, and while the flag stays
\* false no session starts a new read: each finishes at most the cycle it
\* had started.
C12_FlagSeenAtLoopTop ==
    [][\A c \in Conns :
          /\ (sstate[c] = "Check" /\ sstate'[c] # "Check")
                => /\ sstate'[c] = IF is_running THEN "Reading" ELSE "Closed"
                   /\ rd'[c] = rd[c] /\ wr'[c] = wr[c] /\ inq'[c] = inq[c]
                   /\ slog'[c] = slog[c] /\ peer'[c] = peer[c]
          /\ (sstate'[c] = "Reading" /\ sstate[c] # "Reading")
                => (sstate[c] = "Check" /\ is_running)
          /\ (sstate'[c] = "Closed" /\ sstate[c] # "Closed" /\ slog'[c] = slog[c])
                => (sstate[c] = "Check" /\ ~is_running)]_vars

\* With the flag false, one session has ended without reading the data that
\* waits on its connection, and another is finishing the cycle it had started.
C12_Witness ==
    /\ ~is_running
    /\ \E c, d \in Conns : /\ sstate[c] = "Closed" /\ rd[c] = <<>> /\ inq[c] # <<>>
                           /\ slog[c] = {}
                           /\ sstate[d] = "Decoding"

\* C13: an accept error changes neither the flag nor any session and does
\* not end the acceptor: the acceptor goes back to its loop condition, from
\* which it calls accept again while the flag is true.  An acceptor ends
\* only at its loop condition, on a false flag.
C13_AcceptErrorKeepsAcceptor ==
    [][\A a \in Acceptors :
          /\ (apc[a] = "accept" /\ apc'[a] \notin {"accept", "check"})
                => /\ apc'[a] = "error"
                   /\ UNCHANGED <<is_running, callerVars, netVars, sessionVars>>
          /\ (apc[a] = "error" /\ apc'[a] # "error")
                => /\ apc'[a] = "check"
                   /\ UNCHANGED <<is_running, callerVars, netVars, sessionVars>>
          /\ (apc[a] = "check" /\ apc'[a] # "check" /\ is_running) => apc'[a] = "accept"
          /\ (apc'[a] = "done" /\ apc[a] # "done") => (apc[a] = "check" /\ ~is_running)]_vars

\* An accept has just failed while the server runs and serves a session.
C13_Witness ==
    /\ is_running
    /\ \E a \in Acceptors : apc[a] = "error"
    /\ \E c \in Conns : sstate[c] = "Reading"

NeverRun ==
    /\ nacc = 0
    /\ \A k \in Callers : cpc[k] = "idle" /\ report[k] \in {"none", "already"}

\* C15: until the first run() the flag is false, there is no acceptor, no
\* connection is accepted (every connection made is still queued) and no
\* session exists.
C15_NothingBeforeRun ==
    /\ NeverRun => ~is_running
    /\ nacc = 0 => /\ \A a \in Acceptors : apc[a] = "none"
                   /\ \A c \in Conns : sstate[c] = "None" /\ rd[c] = <<>> /\ wr[c] = <<>>
                   /\ Len(backlog) = nconn

\* Before any run(): the peers have connected and sent, a stop() has found
\* the server not running.
C15_Witness ==
    /\ NeverRun
    /\ report[1] = "already"
    /\ nconn = MaxConns
    /\ \E c \in Conns : inq[c] # <<>>

Queued(c) == \E i \in DOMAIN backlog : backlog[i] = c

\* C16: every established connection is either still queued or owned by the
\* one session spawned for it; each accept takes one connection off the
\* queue and spawns exactly one session, for that connection; only the
\* session of a connection, in its read or its write, consumes that
\* connection's input or writes on it, and no acceptor step does.
C16_OneSessionPerConnection ==
    /\ [](\A c \in Conns : /\ Queued(c) <=> (peer[c] # "none" /\ sstate[c] = "None")
                           /\ Cardinality({i \in DOMAIN backlog : backlog[i] = c}) <= 1)
    /\ [][\A c \in Conns :
             /\ (sstate[c] = "None" /\ sstate'[c] # "None")
                   => /\ sstate'[c] = "Check"
                      /\ backlog # <<>> /\ Head(backlog) = c /\ backlog' = Tail(backlog)
                      /\ \A d \in Conns \ {c} : sstate'[d] = sstate[d]
                      /\ \E a \in Acceptors : apc[a] = "accept" /\ apc'[a] = "check"
             /\ sstate[c] # "None" => sstate'[c] # "None"
             /\ (rd'[c] # rd[c] \/ (Len(inq'[c]) < Len(inq[c]) /\ peer'[c] = peer[c]))
                   => (sstate[c] = "Reading" /\ apc' = apc)
             /\ wr'[c] # wr[c] => (sstate[c] = "Responding" /\ apc' = apc)]_vars

\* Two acceptors are live, both connections have been accepted, and the
\* session of each is writing its answer.
C16_Witness ==
    /\ Cardinality(LiveAcceptors) = 2
    /\ backlog = <<>>
    /\ \A c \in Conns : sstate[c] = "Responding"

\* The moves of a session thread: the cycle Reading -> Decoding ->
\* Responding -> Reading passes through the loop condition; a zero-byte read
\* and a decode failure return to the loop condition directly.
SessionMoves ==
    {<<"None", "Check">>, <<"Check", "Reading">>, <<"Check", "Closed">>,
     <<"Reading", "Decoding">>, <<"Reading", "Check">>, <<"Reading", "Closed">>,
     <<"Decoding", "Responding">>, <<"Decoding", "Check">>,
     <<"Responding", "Check">>, <<"Responding", "Closed">>, <<"Responding", "Failed">>}

\* C17: a session moves only along its cycle; when a read returns data,
\* every earlier decoded read has its payload written already, and a write
\* appends the payload of the latest read, so the payloads on a connection
\* are in the order of its reads.
C17_CycleInOrder ==
    [][\A c \in Conns :
          /\ sstate'[c] # sstate[c] => <<sstate[c], sstate'[c]>> \in SessionMoves
          /\ rd'[c] # rd[c] => /\ sstate[c] = "Reading" /\ sstate'[c] = "Decoding"
                               /\ Front(rd'[c]) = rd[c]
                               /\ wr[c] = Echoes(rd[c])
          /\ wr'[c] # wr[c] => /\ sstate[c] = "Responding" /\ sstate'[c] = "Check"
                               /\ wr'[c] = Append(wr[c], Encode(Decode(Last(rd[c])).content))
                               /\ wr'[c] = Echoes(rd[c])]_vars

\* The second read of a session has returned; the answer to the first is
\* written.
C17_Witness ==
    \E c \in Conns : /\ rd[c] = <<Valid(c), NonCanonical(c)>>
                     /\ wr[c] = <<Valid(c)>>
                     /\ sstate[c] = "Decoding"

\* C18: a stop() call that reports "sent" is the call that took the flag
\* from true to false; a call that did not make that transition reports
\* "already".
C18_OneSentPerTransition ==
    [][\A k \in Callers :
          (cpc[k] = "stop" /\ cpc'[k] = "idle")
             => (report'[k] = "sent" <=> (is_running /\ ~is_running'))]_vars

SessionLive(c) == sstate[c] \in {"Check", "Reading", "Decoding", "Responding"}
BlockedInRead(c) == sstate[c] = "Reading" /\ inq[c] = <<>> /\ peer[c] = "up"
BlockedInWrite(c) ==
    sstate[c] = "Responding" /\ peer[c] \in {"up", "closed"} /\ unread[c] >= SendBuf

\* C19 as stated: once the flag is false, a live session that is not blocked
\* in a read ends, unless run() sets the flag again.
C19_StoppedSessionEnds ==
    \A c \in Conns :
        (~is_running /\ SessionLive(c) /\ ~BlockedInRead(c))
            ~> (is_running \/ SessionEnded(c))

\* C19, amended: once the flag is false, a live session that is not blocked
\* in a read ends, unless run() sets the flag again or the session is
\* blocked in a write to a peer that does not receive.
C19_StoppedSessionEndsOrBlocked ==
    \A c \in Conns :
        (~is_running /\ SessionLive(c) /\ ~BlockedInRead(c))
            ~> (is_running \/ SessionEnded(c) \/ BlockedInWrite(c))

\* The flag is false, one session is blocked in a write and another has
\* ended.
C19_Witness ==
    /\ ~is_running
    /\ \E c \in Conns : BlockedInWrite(c) /\ wr[c] # <<>>
    /\ \E c \in Conns : SessionEnded(c)

====
